---- MODULE Spec2Model ----
(***************************************************************************)
(* Model of fuel_server.py: a Flask application over three SQLite tables   *)
(* (cars, fuel_logs, service_logs).  Every request handler is one action.  *)
(*                                                                         *)
(* Representation of values                                                *)
(*   - registration, description: sequences of one-character strings, so   *)
(*     that str.strip() and str.upper() are computed, not assumed;         *)
(*   - a JSON value that may be absent (None) is <<>>, a present value v   *)
(*     is <<v>>; SQL NULL is <<>> as well;                                 *)
(*   - logged_at: natural numbers standing for ISO timestamps (only their  *)
(*     order is read by the code), 0 standing for the empty string;        *)
(*   - REAL columns are binary fractions, so that float arithmetic on them *)
(*     is exact and round() meets exact ties:                              *)
(*       fuel_amount, price_per_unit  in quarters        (1/4)             *)
(*       odometer                     in 1/32 km                           *)
(*       total_cost, two-decimal results   in hundredths                   *)
(*       distance_km, one-decimal results  in tenths                       *)
(*       four-decimal results              in ten-thousandths              *)
(*   - columns no handler reads back into a decision (created_at, notes,   *)
(*     provider, next_due_date, next_due_km, service odometer) are left    *)
(*     out of the rows.                                                    *)
(***************************************************************************)
EXTENDS Integers, Sequences, FiniteSets, TLC

\* Bounds of the model (not program constants).
MaxRows == 3      \* rows ever inserted, over the three tables
MaxConns == 1     \* connections open at the same time

VARIABLES
    cars,          \* table cars: set of [id, registration, description]
    cars_seq,      \* sqlite_sequence row of cars (AUTOINCREMENT high-water mark)
    fuel_logs,     \* table fuel_logs
    fuel_seq,      \* sqlite_sequence row of fuel_logs
    service_logs,  \* table service_logs
    svc_seq,       \* sqlite_sequence row of service_logs
    conns,         \* sqlite3 connections opened by get_db() and not closed
    resp,          \* the last request and its response: [op, req, status, body]
    issued,        \* history: ids returned by successful POST /api/cars
    returned,      \* history: total_cost returned by POST /api/logs, per live entry id
    orphaned       \* history: <<table, id>> of the entries whose vehicle was deleted under them

vars == <<cars, cars_seq, fuel_logs, fuel_seq, service_logs, svc_seq,
          conns, resp, issued, returned, orphaned>>

(***************************************************************************)
(* Python and SQLite primitives                                            *)
(***************************************************************************)

\* str.upper() on the characters of the model's alphabet.
UpperChar(c) ==
    CASE c = "a" -> "A"
      [] c = "b" -> "B"
      [] OTHER   -> c

Upper(s) == [i \in 1..Len(s) |-> UpperChar(s[i])]

\* str.strip(): leading and trailing whitespace removed.
RECURSIVE LStrip(_)
LStrip(s) == IF s # <<>> /\ Head(s) = " " THEN LStrip(Tail(s)) ELSE s

RECURSIVE RStrip(_)
RStrip(s) ==
    IF s # <<>> /\ s[Len(s)] = " " THEN RStrip(SubSeq(s, 1, Len(s) - 1)) ELSE s

Strip(s) == RStrip(LStrip(s))

\* Python truthiness of a JSON value: None, 0, "" are falsy.
Falsy(x) == x = <<>> \/ x = <<0>>
FalsyStr(s) == s = <<>>

\* round(): the exact value num/den (den > 0) rounded to the nearest integer,
\* ties to the even one.  The operands are binary fractions, which floats hold
\* exactly, so that Python's round() is this rule.
RoundHalfEven(num, den) ==
    LET q == num \div den
        r == num % den
    IN  IF 2 * r < den THEN q
        ELSE IF 2 * r > den THEN q + 1
        ELSE IF q % 2 = 0 THEN q ELSE q + 1

\* The byte of a character (BINARY collation of TEXT).
Ord(c) ==
    CASE c = " " -> 32
      [] c = "A" -> 65
      [] c = "B" -> 66
      [] c = "a" -> 97
      [] c = "b" -> 98
      [] OTHER   -> 0

RECURSIVE StrLess(_, _)
StrLess(s, t) ==
    IF t = <<>> THEN FALSE
    ELSE IF s = <<>> THEN TRUE
    ELSE IF Ord(Head(s)) # Ord(Head(t)) THEN Ord(Head(s)) < Ord(Head(t))
    ELSE StrLess(Tail(s), Tail(t))

\* All orders in which a SELECT ... ORDER BY logged_at ASC (Asc) or DESC may
\* return the rows of S: rows with equal logged_at come in an order SQL
\* leaves open.
Orderings(S, Asc) ==
    LET n == Cardinality(S)
    IN  { s \in [1..n -> S] :
            /\ \A i, j \in 1..n : i # j => s[i] # s[j]
            /\ \A i \in 1..(n - 1) :
                 IF Asc THEN s[i].logged_at <= s[i + 1].logged_at
                        ELSE s[i].logged_at >= s[i + 1].logged_at }

\* list.sort(key=lambda x: x["logged_at"], reverse=Rev): a stable sort; each
\* element goes after the elements already placed whose key is not greater
\* (not smaller, when reversed).
RECURSIVE InsertStable(_, _, _)
InsertStable(x, s, Rev) ==
    IF s = <<>> THEN <<x>>
    ELSE IF (IF Rev THEN x.logged_at > Head(s).logged_at
                    ELSE x.logged_at < Head(s).logged_at)
         THEN <<x>> \o s
         ELSE <<Head(s)>> \o InsertStable(x, Tail(s), Rev)

RECURSIVE SortStable(_, _)
SortStable(s, Rev) ==
    IF s = <<>> THEN <<>>
    ELSE InsertStable(s[Len(s)], SortStable(SubSeq(s, 1, Len(s) - 1), Rev), Rev)

\* SUM(column) over the rows of S.
RECURSIVE SumField(_, _)
SumField(S, column) ==
    IF S = {} THEN 0
    ELSE LET x == CHOOSE y \in S : TRUE IN x[column] + SumField(S \ {x}, column)

SetMin(S) == CHOOSE x \in S : \A y \in S : x <= y
SetMax(S) == CHOOSE x \in S : \A y \in S : x >= y

(***************************************************************************)
(* Connections                                                             *)
(***************************************************************************)

\* get_db(): a new connection.  "with get_db() as conn" commits or rolls back
\* when the block is left; sqlite3's context manager does not close the
\* connection, and no handler calls conn.close().
get_db == conns' = conns + 1

\* The interpreter reclaims a Connection object no longer referenced; its
\* deallocation closes the connection.  The language fixes no moment for it.
Reclaim ==
    /\ conns > 0
    /\ conns' = conns - 1
    /\ UNCHANGED <<cars, cars_seq, fuel_logs, fuel_seq, service_logs, svc_seq,
                   resp, issued, returned, orphaned>>

\* What the client sees of a request: the handler, its arguments, the HTTP
\* status and the JSON body.
Response(op, req, status, body) ==
    [op |-> op, req |-> req, status |-> status, body |-> body]


(***************************************************************************)
(* Cars                                                                    *)
(***************************************************************************)

\* GET /api/cars: SELECT * FROM cars ORDER BY registration (registration is
\* UNIQUE, so the order is determined).
get_cars ==
    /\ get_db
    /\ LET n == Cardinality(cars)
           rows == CHOOSE s \in [1..n -> cars] :
                       \A i, j \in 1..n :
                           i < j => StrLess(s[i].registration, s[j].registration)
       IN  resp' = Response("get_cars", <<>>, 200, rows)
    /\ UNCHANGED <<cars, cars_seq, fuel_logs, fuel_seq, service_logs, svc_seq,
                   issued, returned, orphaned>>

\* add_car as it would be if registration were not declared UNIQUE: the
\* INSERT never raises.
add_car_not_unique(data) ==
    IF FalsyStr(data.registration) \/ FalsyStr(data.description)
    THEN /\ resp' = Response("add_car", data, 400, "registration and description are required")
         /\ UNCHANGED <<cars, cars_seq, fuel_logs, fuel_seq, service_logs, svc_seq,
                        conns, issued, returned, orphaned>>
    ELSE LET reg == Upper(Strip(data.registration))
             id  == cars_seq + 1
         IN  /\ get_db
             /\ cars' = cars \cup
                    {[id |-> id, registration |-> reg,
                      description |-> Strip(data.description)]}
             /\ cars_seq' = id
             /\ issued' = issued \cup {id}
             /\ resp' = Response("add_car", data, 201, [id |-> id, registration |-> reg])
             /\ UNCHANGED <<fuel_logs, fuel_seq, service_logs, svc_seq,
                            returned, orphaned>>

\* add_car as it would be if id were not declared AUTOINCREMENT: the new row
\* gets the id after the largest id now in the table.
add_car_rowid(data) ==
    IF FalsyStr(data.registration) \/ FalsyStr(data.description)
    THEN /\ resp' = Response("add_car", data, 400, "registration and description are required")
         /\ UNCHANGED <<cars, cars_seq, fuel_logs, fuel_seq, service_logs, svc_seq,
                        conns, issued, returned, orphaned>>
    ELSE LET reg == Upper(Strip(data.registration))
             id  == IF cars = {} THEN 1 ELSE SetMax({c.id : c \in cars}) + 1
         IN  /\ get_db
             /\ IF \E c \in cars : c.registration = reg
                THEN /\ resp' = Response("add_car", data, 409, reg)
                     /\ UNCHANGED <<cars, cars_seq, issued>>
                ELSE /\ cars' = cars \cup
                            {[id |-> id, registration |-> reg,
                              description |-> Strip(data.description)]}
                     /\ cars_seq' = cars_seq + 1
                     /\ issued' = issued \cup {id}
                     /\ resp' = Response("add_car", data, 201,
                                         [id |-> id, registration |-> reg])
             /\ UNCHANGED <<fuel_logs, fuel_seq, service_logs, svc_seq,
                            returned, orphaned>>

\* POST /api/cars.  The INSERT raises sqlite3.IntegrityError exactly when the
\* UNIQUE constraint on registration fails; AUTOINCREMENT gives the new row
\* the id after the largest id the table ever held.
add_car(data) ==
    IF FalsyStr(data.registration) \/ FalsyStr(data.description)
    THEN /\ resp' = Response("add_car", data, 400, "registration and description are required")
         /\ UNCHANGED <<cars, cars_seq, fuel_logs, fuel_seq, service_logs, svc_seq,
                        conns, issued, returned, orphaned>>
    ELSE LET reg == Upper(Strip(data.registration))
             id  == cars_seq + 1
         IN  /\ get_db
             /\ IF \E c \in cars : c.registration = reg
                THEN /\ resp' = Response("add_car", data, 409, reg)
                     /\ UNCHANGED <<cars, cars_seq, issued>>
                ELSE /\ cars' = cars \cup
                            {[id |-> id, registration |-> reg,
                              description |-> Strip(data.description)]}
                     /\ cars_seq' = id
                     /\ issued' = issued \cup {id}
                     /\ resp' = Response("add_car", data, 201,
                                         [id |-> id, registration |-> reg])
             /\ UNCHANGED <<fuel_logs, fuel_seq, service_logs, svc_seq,
                            returned, orphaned>>

\* delete_car as it would be with ON DELETE CASCADE enforced.
delete_car_cascade(car_id) ==
    /\ get_db
    /\ cars' = {c \in cars : c.id # car_id}
    /\ fuel_logs' = {l \in fuel_logs : l.car_id # car_id}
    /\ service_logs' = {v \in service_logs : v.car_id # car_id}
    /\ returned' = [i \in {l.id : l \in fuel_logs'} |-> returned[i]]
    /\ resp' = Response("delete_car", car_id, 200, [deleted |-> car_id])
    /\ UNCHANGED <<cars_seq, fuel_seq, svc_seq, issued, orphaned>>

\* DELETE /api/cars/<int:car_id>.  Foreign keys are declared but SQLite does
\* not enforce them unless PRAGMA foreign_keys is set, which the code never
\* does: the entries of the vehicle stay.
delete_car(car_id) ==
    /\ get_db
    /\ cars' = {c \in cars : c.id # car_id}
    /\ orphaned' = orphaned \cup
           IF \E c \in cars : c.id = car_id
           THEN {<<"fuel_logs", l.id>> : l \in {m \in fuel_logs : m.car_id = car_id}}
                \cup {<<"service_logs", v.id>> :
                         v \in {w \in service_logs : w.car_id = car_id}}
           ELSE {}
    /\ resp' = Response("delete_car", car_id, 200, [deleted |-> car_id])
    /\ UNCHANGED <<cars_seq, fuel_logs, fuel_seq, service_logs, svc_seq,
                   issued, returned>>

(***************************************************************************)
(* Fuel logs                                                               *)
(***************************************************************************)

NullMetrics ==
    [distance_km |-> <<>>, consumption_per100 |-> <<>>,
     rand_per_km |-> <<>>, rand_per_litre_trip |-> <<>>]

\* round(dist, 1) of a distance held in 1/32 km, in tenths of a km.
RoundDistance(dist) == RoundHalfEven(dist * 10, 32)

\* TripMetrics subtracting the entry's odometer from the previous one.
TripMetrics_swapped(with_odo, i) ==
    IF i = 1 THEN NullMetrics
    ELSE LET log  == with_odo[i]
             prev == with_odo[i - 1]
             dist == prev.odometer[1] - log.odometer[1]
         IN  IF dist > 0
             THEN [distance_km         |-> <<RoundDistance(dist)>>,
                   consumption_per100  |-> <<RoundHalfEven(80000 * log.fuel_amount, dist)>>,
                   rand_per_km         |-> <<RoundHalfEven(3200 * log.total_cost, dist)>>,
                   rand_per_litre_trip |-> <<2500 * log.price_per_unit>>]
             ELSE NullMetrics

\* Lines 127-145: the metrics of with_odo[i].  Quotients of two floats are
\* rounded here from their exact value.
TripMetrics(with_odo, i) ==
    IF i = 1 THEN NullMetrics
    ELSE LET log  == with_odo[i]
             prev == with_odo[i - 1]
             dist == log.odometer[1] - prev.odometer[1]
         IN  IF dist > 0
             THEN [distance_km         |-> <<RoundDistance(dist)>>,
                   consumption_per100  |-> <<RoundHalfEven(80000 * log.fuel_amount, dist)>>,
                   rand_per_km         |-> <<RoundHalfEven(3200 * log.total_cost, dist)>>,
                   rand_per_litre_trip |-> <<2500 * log.price_per_unit>>]
             ELSE NullMetrics

\* Lines 117-147: group by car, derive, and sort the listing newest first.
\* The metric keys are set on the dicts of with_odo only.
DeriveLogs(rows) ==
    LET WithOdo(c) ==
            SortStable(SelectSeq(rows, LAMBDA l : l.car_id = c /\ l.odometer # <<>>),
                       FALSE)
        IndexIn(s, l) == CHOOSE i \in 1..Len(s) : s[i].id = l.id
        Derived(l) ==
            IF l.odometer = <<>> THEN l
            ELSE l @@ TripMetrics(WithOdo(l.car_id), IndexIn(WithOdo(l.car_id), l))
        logs == [k \in 1..Len(rows) |-> Derived(rows[k])]
    IN  SortStable(logs, TRUE)

\* JoinedLogs as a LEFT JOIN: the entries without a vehicle are kept.
JoinedLogs_left_join(car_id) ==
    { l @@ [registration |-> c.registration, car_description |-> c.description] :
        <<l, c>> \in { p \in fuel_logs \X cars :
                         /\ p[1].car_id = p[2].id
                         /\ (car_id = <<>> \/ p[1].car_id = car_id[1]) } }
    \cup
    { l @@ [registration |-> <<>>, car_description |-> <<>>] :
        l \in { m \in fuel_logs :
                  /\ \A c \in cars : c.id # m.car_id
                  /\ (car_id = <<>> \/ m.car_id = car_id[1]) } }

\* The rows of "fuel_logs fl JOIN cars c ON fl.car_id = c.id [WHERE fl.car_id = ?]".
JoinedLogs(car_id) ==
    { l @@ [registration |-> c.registration, car_description |-> c.description] :
        <<l, c>> \in { p \in fuel_logs \X cars :
                         /\ p[1].car_id = p[2].id
                         /\ (car_id = <<>> \/ p[1].car_id = car_id[1]) } }

\* GET /api/logs?car_id=
get_logs(car_id) ==
    /\ get_db
    /\ \E rows \in Orderings(JoinedLogs(car_id), TRUE) :
           resp' = Response("get_logs", car_id, 200, DeriveLogs(rows))
    /\ UNCHANGED <<cars, cars_seq, fuel_logs, fuel_seq, service_logs, svc_seq,
                   issued, returned, orphaned>>

\* TotalCost cut to 2 decimal places instead of rounded.
TotalCost_truncated(fuel_amount, price_per_unit) ==
    (fuel_amount * price_per_unit * 100) \div 16

\* round(float(fuel_amount) * float(price_per_unit), 2), in hundredths: the
\* product of two numbers of quarters is a number of sixteenths.
TotalCost(fuel_amount, price_per_unit) ==
    RoundHalfEven(fuel_amount * price_per_unit * 100, 16)

\* Lines 153-155: the first required field that is missing or falsy.
MissingLogField(data) ==
    IF Falsy(data.car_id) THEN "car_id"
    ELSE IF Falsy(data.logged_at) THEN "logged_at"
    ELSE IF Falsy(data.fuel_amount) THEN "fuel_amount"
    ELSE IF data.fuel_unit = "" THEN "fuel_unit"
    ELSE IF Falsy(data.price_per_unit) THEN "price_per_unit"
    ELSE ""

\* POST /api/logs
add_log(data) ==
    IF MissingLogField(data) # ""
    THEN /\ resp' = Response("add_log", data, 400, MissingLogField(data))
         /\ UNCHANGED <<cars, cars_seq, fuel_logs, fuel_seq, service_logs, svc_seq,
                        conns, issued, returned, orphaned>>
    ELSE LET total_cost == TotalCost(data.fuel_amount[1], data.price_per_unit[1])
             id == fuel_seq + 1
         IN  /\ get_db
             /\ fuel_logs' = fuel_logs \cup
                    {[id |-> id, car_id |-> data.car_id[1],
                      logged_at |-> data.logged_at[1],
                      fuel_amount |-> data.fuel_amount[1],
                      fuel_unit |-> data.fuel_unit,
                      price_per_unit |-> data.price_per_unit[1],
                      total_cost |-> total_cost,
                      odometer |-> IF Falsy(data.odometer) THEN <<>> ELSE data.odometer]}
             /\ fuel_seq' = id
             /\ returned' = returned @@ (id :> total_cost)
             /\ resp' = Response("add_log", data, 201, [id |-> id, total_cost |-> total_cost])
             /\ UNCHANGED <<cars, cars_seq, service_logs, svc_seq, issued, orphaned>>

\* DELETE /api/logs/<int:log_id>
delete_log(log_id) ==
    /\ get_db
    /\ fuel_logs' = {l \in fuel_logs : l.id # log_id}
    /\ returned' = [i \in DOMAIN returned \ {log_id} |-> returned[i]]
    /\ orphaned' = orphaned \ {<<"fuel_logs", log_id>>}
    /\ resp' = Response("delete_log", log_id, 200, [deleted |-> log_id])
    /\ UNCHANGED <<cars, cars_seq, fuel_seq, service_logs, svc_seq, issued>>

(***************************************************************************)
(* Statistics                                                              *)
(***************************************************************************)

\* DistanceGuard with "not less" for "greater".
DistanceGuard_not_less(first_odo, last_odo) ==
    first_odo # <<>> /\ last_odo # <<>> /\ last_odo[1] >= first_odo[1]

\* Line 201: the guard of the three distance figures.
DistanceGuard(first_odo, last_odo) ==
    first_odo # <<>> /\ last_odo # <<>> /\ last_odo[1] > first_odo[1]

\* Line 213: the guard of overall_rand_per_litre.
FuelGuard(total_fuel) == total_fuel > 0

\* "FROM fuel_logs [WHERE car_id = ?]" and "FROM service_logs [WHERE car_id = ?]":
\* no join with cars.
InScope(table, car_id) ==
    {r \in table : car_id = <<>> \/ r.car_id = car_id[1]}

\* Lines 188-198: the aggregate row.
BaseStats(car_id) ==
    LET S    == InScope(fuel_logs, car_id)
        odos == {l.odometer[1] : l \in {m \in S : m.odometer # <<>>}}
    IN  [total_entries      |-> Cardinality(S),
         total_fuel         |-> SumField(S, "fuel_amount"),
         total_spent        |-> SumField(S, "total_cost"),
         avg_price_per_unit |-> IF S = {} THEN <<0, 1>>
                                ELSE <<SumField(S, "price_per_unit"), Cardinality(S)>>,
         first_odo          |-> IF odos = {} THEN <<>> ELSE <<SetMin(odos)>>,
         last_odo           |-> IF odos = {} THEN <<>> ELSE <<SetMax(odos)>>]

\* Lines 216-222: the service breakdown (GROUP BY category).
ServiceStats(car_id) ==
    LET V == InScope(service_logs, car_id)
        Of(cat) == {v \in V : v.category = cat}
    IN  [service_breakdown  |-> {[category |-> cat, total |-> SumField(Of(cat), "cost"),
                                  count |-> Cardinality(Of(cat))] :
                                    cat \in {v.category : v \in V}},
         total_service_cost |-> SumField(V, "cost")]

\* A division the handler performs with a zero divisor raises ZeroDivisionError.
StatsRaises(base) ==
    \/ /\ DistanceGuard(base.first_odo, base.last_odo)
       /\ base.last_odo[1] - base.first_odo[1] = 0
    \/ /\ FuelGuard(base.total_fuel)
       /\ base.total_fuel = 0

\* Lines 200-214: the derived figures.
DerivedStats(base) ==
    LET dist == base.last_odo[1] - base.first_odo[1]
    IN  (IF DistanceGuard(base.first_odo, base.last_odo)
         THEN [total_distance_km      |-> <<RoundDistance(dist)>>,
               avg_consumption_per100 |-> <<RoundHalfEven(80000 * base.total_fuel, dist)>>,
               overall_rand_per_km    |-> <<RoundHalfEven(3200 * base.total_spent, dist)>>]
         ELSE [total_distance_km      |-> <<>>,
               avg_consumption_per100 |-> <<>>,
               overall_rand_per_km    |-> <<>>])
        @@
        [overall_rand_per_litre |->
            IF FuelGuard(base.total_fuel)
            THEN <<RoundHalfEven(400 * base.total_spent, base.total_fuel)>>
            ELSE <<>>]

\* GET /api/stats?car_id=   An exception that leaves the handler is answered 500.
get_stats(car_id) ==
    /\ get_db
    /\ LET base == BaseStats(car_id)
       IN  resp' = IF StatsRaises(base)
                   THEN Response("get_stats", car_id, 500, "ZeroDivisionError")
                   ELSE Response("get_stats", car_id, 200,
                                 base @@ DerivedStats(base) @@ ServiceStats(car_id))
    /\ UNCHANGED <<cars, cars_seq, fuel_logs, fuel_seq, service_logs, svc_seq,
                   issued, returned, orphaned>>

(***************************************************************************)
(* Service logs                                                            *)
(***************************************************************************)

\* VALID_CATEGORIES with one category more.
VALID_CATEGORIES_and_fuel ==
    {"tyres", "car_wash", "car_service", "panel_beating", "special_service", "fuel"}

VALID_CATEGORIES == {"tyres", "car_wash", "car_service", "panel_beating", "special_service"}

\* The rows of "service_logs sl JOIN cars c ON sl.car_id = c.id [WHERE ...]".
JoinedServices(car_id, category) ==
    { v @@ [registration |-> c.registration, car_description |-> c.description] :
        <<v, c>> \in { p \in service_logs \X cars :
                         /\ p[1].car_id = p[2].id
                         /\ (car_id = <<>> \/ p[1].car_id = car_id[1])
                         /\ (category = "" \/ p[1].category = category) } }

\* GET /api/services?car_id=&category=
get_services(car_id, category) ==
    /\ get_db
    /\ \E rows \in Orderings(JoinedServices(car_id, category), FALSE) :
           resp' = Response("get_services", <<car_id, category>>, 200, rows)
    /\ UNCHANGED <<cars, cars_seq, fuel_logs, fuel_seq, service_logs, svc_seq,
                   issued, returned, orphaned>>

\* Lines 250-252: the first required field that is None.
MissingServiceField(data) ==
    IF data.car_id = <<>> THEN "car_id"
    ELSE IF data.category = <<>> THEN "category"
    ELSE IF data.logged_at = <<>> THEN "logged_at"
    ELSE IF data.cost = <<>> THEN "cost"
    ELSE ""

\* add_service checking the category after the INSERT instead of before.
add_service_insert_first(data) ==
    IF MissingServiceField(data) # ""
    THEN /\ resp' = Response("add_service", data, 400, MissingServiceField(data))
         /\ UNCHANGED <<cars, cars_seq, fuel_logs, fuel_seq, service_logs, svc_seq,
                        conns, issued, returned, orphaned>>
    ELSE LET id == svc_seq + 1
         IN  /\ get_db
             /\ service_logs' = service_logs \cup
                    {[id |-> id, car_id |-> data.car_id[1],
                      category |-> data.category[1],
                      logged_at |-> data.logged_at[1],
                      cost |-> data.cost[1]]}
             /\ svc_seq' = id
             /\ resp' = IF data.category[1] \notin {"tyres", "car_wash", "car_service",
                                                    "panel_beating", "special_service"}
                        THEN Response("add_service", data, 400, "Invalid category")
                        ELSE Response("add_service", data, 201, [id |-> id])
             /\ UNCHANGED <<cars, cars_seq, fuel_logs, fuel_seq,
                            issued, returned, orphaned>>

\* POST /api/services
add_service(data) ==
    IF MissingServiceField(data) # ""
    THEN /\ resp' = Response("add_service", data, 400, MissingServiceField(data))
         /\ UNCHANGED <<cars, cars_seq, fuel_logs, fuel_seq, service_logs, svc_seq,
                        conns, issued, returned, orphaned>>
    ELSE IF data.category[1] \notin VALID_CATEGORIES
    THEN /\ resp' = Response("add_service", data, 400, "Invalid category")
         /\ UNCHANGED <<cars, cars_seq, fuel_logs, fuel_seq, service_logs, svc_seq,
                        conns, issued, returned, orphaned>>
    ELSE LET id == svc_seq + 1
         IN  /\ get_db
             /\ service_logs' = service_logs \cup
                    {[id |-> id, car_id |-> data.car_id[1],
                      category |-> data.category[1],
                      logged_at |-> data.logged_at[1],
                      cost |-> data.cost[1]]}
             /\ svc_seq' = id
             /\ resp' = Response("add_service", data, 201, [id |-> id])
             /\ UNCHANGED <<cars, cars_seq, fuel_logs, fuel_seq,
                            issued, returned, orphaned>>

\* DELETE /api/services/<int:svc_id>
delete_service(svc_id) ==
    /\ get_db
    /\ service_logs' = {v \in service_logs : v.id # svc_id}
    /\ orphaned' = orphaned \ {<<"service_logs", svc_id>>}
    /\ resp' = Response("delete_service", svc_id, 200, [deleted |-> svc_id])
    /\ UNCHANGED <<cars, cars_seq, fuel_logs, fuel_seq, svc_seq, issued, returned>>

(***************************************************************************)
(* The system: init_db() on an empty database file, then requests.         *)
(***************************************************************************)

Init ==
    /\ cars = {}
    /\ cars_seq = 0
    /\ fuel_logs = {}
    /\ fuel_seq = 0
    /\ service_logs = {}
    /\ svc_seq = 0
    /\ conns = 0
    /\ resp = Response("none", <<>>, 0, <<>>)
    /\ issued = {}
    /\ returned = <<>>
    /\ orphaned = {}

\* Bounds on the exploration: a request is served while fewer than MaxConns
\* connections are open, and a POST inserts while fewer than MaxRows rows
\* were inserted (a POST that is refused is served at any time).
Room == conns < MaxConns
RowRoom ==
    \/ cars_seq + fuel_seq + svc_seq < MaxRows
    \/ UNCHANGED <<cars_seq, fuel_seq, svc_seq>>

\* Ids that requests name: the vehicles 1 and 2; for a DELETE, the ids of
\* the rows of the table and one id that is not in it.
CarIds == 1..2
IdsOf(table, seq) == {r.id : r \in table} \cup {seq + 1}
Scopes == {<<>>} \cup {<<n>> : n \in CarIds}

\* The requests that read, delete or only close.
GetCars == Room /\ get_cars
DeleteCar == Room /\ \E car_id \in IdsOf(cars, cars_seq) : delete_car(car_id)
GetLogs == Room /\ \E car_id \in Scopes : get_logs(car_id)
DeleteLog == Room /\ \E log_id \in IdsOf(fuel_logs, fuel_seq) : delete_log(log_id)
GetStats == Room /\ \E car_id \in Scopes : get_stats(car_id)
GetServices ==
    Room /\ \E car_id \in Scopes, category \in {"", "tyres"} : get_services(car_id, category)
DeleteService == Room /\ \E svc_id \in IdsOf(service_logs, svc_seq) : delete_service(svc_id)

AddCarFrom(Requests) == Room /\ \E data \in Requests : add_car(data) /\ RowRoom
AddLogFrom(Requests) == Room /\ \E data \in Requests : add_log(data) /\ RowRoom
AddServiceFrom(Requests) == Room /\ \E data \in Requests : add_service(data) /\ RowRoom

\* One well-formed request of each kind; the request sets vary it.
GoodCar == [registration |-> <<"a">>, description |-> <<"d", " ">>]
GoodLog ==
    [car_id |-> <<1>>, logged_at |-> <<1>>, fuel_amount |-> <<2>>,
     fuel_unit |-> "litres", price_per_unit |-> <<3>>, odometer |-> <<>>]
GoodService ==
    [car_id |-> <<1>>, category |-> <<"tyres">>, logged_at |-> <<1>>, cost |-> <<5>>]

(***************************************************************************)
(* Spec: every handler, with valid and invalid requests of each kind.      *)
(***************************************************************************)

CarRequests ==
    [registration : {<<>>, <<"a">>, <<" ", "A">>, <<"b", " ">>},
     description  : {<<>>, <<"d", " ">>}]

LogRequests ==
    {[GoodLog EXCEPT !.car_id = c] : c \in {<<>>, <<0>>, <<1>>, <<2>>}}
    \cup {[GoodLog EXCEPT !.logged_at = <<>>],
          [GoodLog EXCEPT !.fuel_amount = <<0>>],
          [GoodLog EXCEPT !.fuel_unit = ""],
          [GoodLog EXCEPT !.price_per_unit = <<>>]}

ServiceRequests ==
    {[GoodService EXCEPT !.car_id = c] : c \in {<<>>, <<1>>, <<2>>}}
    \cup {[GoodService EXCEPT !.category = <<>>],
          [GoodService EXCEPT !.category = <<"fuel">>],
          [GoodService EXCEPT !.logged_at = <<>>],
          [GoodService EXCEPT !.cost = <<>>]}

AddCar == AddCarFrom(CarRequests)
AddLog == AddLogFrom(LogRequests)
AddService == AddServiceFrom(ServiceRequests)

Next ==
    \/ GetCars
    \/ AddCar
    \/ DeleteCar
    \/ GetLogs
    \/ AddLog
    \/ DeleteLog
    \/ GetStats
    \/ GetServices
    \/ AddService
    \/ DeleteService
    \/ Reclaim

Spec == Init /\ [][Next]_vars

(***************************************************************************)
(* SpecTrip: every handler; the fuel entries vary in vehicle, timestamp    *)
(* and odometer (32 is 1 km: 32, 33, 64 are 1 km, 1.03125 km and 2 km).    *)
(***************************************************************************)

TripCarRequests ==
    {GoodCar, [GoodCar EXCEPT !.registration = <<"b">>]}

TripLogRequests ==
    {[GoodLog EXCEPT !.logged_at = <<1>>, !.odometer = <<32>>],
     [GoodLog EXCEPT !.logged_at = <<1>>, !.odometer = <<64>>],
     [GoodLog EXCEPT !.logged_at = <<2>>, !.odometer = <<33>>],
     [GoodLog EXCEPT !.logged_at = <<2>>, !.odometer = <<>>],
     [GoodLog EXCEPT !.logged_at = <<2>>, !.odometer = <<0>>],
     [GoodLog EXCEPT !.car_id = <<2>>, !.logged_at = <<1>>, !.odometer = <<33>>],
     [GoodLog EXCEPT !.car_id = <<2>>, !.logged_at = <<2>>, !.odometer = <<32>>]}

TripAddCar == AddCarFrom(TripCarRequests)
TripAddLog == AddLogFrom(TripLogRequests)
TripAddService == AddServiceFrom({GoodService})

NextTrip ==
    \/ GetCars
    \/ TripAddCar
    \/ DeleteCar
    \/ GetLogs
    \/ TripAddLog
    \/ DeleteLog
    \/ GetStats
    \/ GetServices
    \/ TripAddService
    \/ DeleteService
    \/ Reclaim

SpecTrip == Init /\ [][NextTrip]_vars

(***************************************************************************)
(* SpecStats: every handler; the fuel entries vary in vehicle, amount      *)
(* (a negative amount passes the falsy check), price and odometer.         *)
(***************************************************************************)

StatsLogRequests ==
    {[GoodLog EXCEPT !.odometer = <<32>>],
     [GoodLog EXCEPT !.fuel_amount = <<-2>>, !.odometer = <<64>>],
     [GoodLog EXCEPT !.fuel_amount = <<3>>, !.price_per_unit = <<1>>],
     [GoodLog EXCEPT !.fuel_amount = <<3>>, !.odometer = <<32>>],
     [GoodLog EXCEPT !.car_id = <<2>>, !.price_per_unit = <<1>>, !.odometer = <<33>>]}

StatsAddCar == AddCarFrom({GoodCar})
StatsAddLog == AddLogFrom(StatsLogRequests)
StatsAddService == AddServiceFrom({GoodService})

NextStats ==
    \/ GetCars
    \/ StatsAddCar
    \/ DeleteCar
    \/ GetLogs
    \/ StatsAddLog
    \/ DeleteLog
    \/ GetStats
    \/ GetServices
    \/ StatsAddService
    \/ DeleteService
    \/ Reclaim

SpecStats == Init /\ [][NextStats]_vars

(***************************************************************************)
(* SpecServices: every handler; the service entries vary in category.      *)
(***************************************************************************)

CategoryRequests ==
    {[GoodService EXCEPT !.category = c] :
        c \in {<<>>, <<"fuel">>, <<"Tyres">>} \cup {<<v>> : v \in VALID_CATEGORIES}}
    \cup {[GoodService EXCEPT !.cost = <<0>>]}

ServicesAddCar == AddCarFrom({GoodCar})
ServicesAddLog == AddLogFrom({GoodLog})
ServicesAddService == AddServiceFrom(CategoryRequests)

NextServices ==
    \/ GetCars
    \/ ServicesAddCar
    \/ DeleteCar
    \/ GetLogs
    \/ ServicesAddLog
    \/ DeleteLog
    \/ GetStats
    \/ GetServices
    \/ ServicesAddService
    \/ DeleteService
    \/ Reclaim

SpecServices == Init /\ [][NextServices]_vars

(***************************************************************************)
(* Claims                                                                  *)
(***************************************************************************)

\* "r1 and r2 are the same registration once trimmed and uppercased".
SameRegistration(r1, r2) == Upper(Strip(r1)) = Upper(Strip(r2))

RegistrationsUnique ==
    \A c1, c2 \in cars :
        SameRegistration(c1.registration, c2.registration) => c1 = c2

\* C1, as stated: no two stored vehicles have the same registration once
\* trimmed and uppercased, and every POST /api/cars whose registration
\* equals, case-insensitively, that of a stored vehicle returns 409 and
\* leaves the set of vehicles unchanged.
C1_AsStated ==
    /\ [] RegistrationsUnique
    /\ [][ \A data \in CarRequests :
             ( /\ add_car(data)
               /\ \E c \in cars : SameRegistration(c.registration, data.registration) )
             => (resp'.status = 409 /\ cars' = cars) ]_vars

\* C1, amended: no two stored vehicles have the same registration once
\* trimmed and uppercased; a POST /api/cars whose registration equals,
\* case-insensitively, that of a stored vehicle leaves the set of vehicles
\* unchanged, and returns 409 when its description is present and non-empty
\* and 400 when it is not.
C1_DuplicateRejected ==
    /\ [] RegistrationsUnique
    /\ [][ \A data \in CarRequests :
             ( /\ add_car(data)
               /\ \E c \in cars : SameRegistration(c.registration, data.registration) )
             => /\ cars' = cars
                /\ resp'.status = IF data.description = <<>> THEN 400 ELSE 409 ]_vars

\* C1 witness: a POST has just been refused with 409 for a registration
\* written differently from the one first stored (" A" against "a").
C1_Witness ==
    /\ resp.op = "add_car"
    /\ resp.status = 409
    /\ resp.req.registration = <<" ", "A">>
    /\ \E c \in cars : c.registration = <<"A">>

\* C3: a POST answered 400 leaves the three tables exactly as they were.
C3_NoWriteOn400 ==
    [][ ( /\ \/ \E data \in CarRequests : add_car(data)
             \/ \E data \in LogRequests : add_log(data)
             \/ \E data \in ServiceRequests : add_service(data)
          /\ resp'.status = 400 )
        => (cars' = cars /\ fuel_logs' = fuel_logs /\ service_logs' = service_logs) ]_vars

\* C3 witness: POST /api/services has just been refused for its category
\* while rows are stored in all three tables.
C3_Witness ==
    /\ resp.op = "add_service"
    /\ resp.status = 400
    /\ resp.body = "Invalid category"
    /\ cars # {} /\ fuel_logs # {} /\ service_logs # {}

\* C7: DELETE /api/cars/{id} answers 200 {deleted: id} whether or not the
\* vehicle exists, removes at most the vehicle with that id and changes no
\* other vehicle, no fuel entry and no service entry.
C7_DeleteCarFrame ==
    [][ \A car_id \in IdsOf(cars, cars_seq) :
          delete_car(car_id)
          => /\ resp'.status = 200
             /\ resp'.body = [deleted |-> car_id]
             /\ cars' \subseteq cars
             /\ \A c \in cars : c.id # car_id => c \in cars'
             /\ \A c \in cars \ cars' : c.id = car_id
             /\ fuel_logs' = fuel_logs
             /\ service_logs' = service_logs ]_vars

\* C7 witness: a vehicle has just been deleted and a fuel entry and a
\* service entry still reference it.
C7_Witness ==
    /\ resp.op = "delete_car"
    /\ resp.status = 200
    /\ \A c \in cars : c.id # resp.req
    /\ \E l \in fuel_logs : l.car_id = resp.req
    /\ \E v \in service_logs : v.car_id = resp.req
    /\ \E l \in fuel_logs : l.car_id = resp.req /\ <<"fuel_logs", l.id>> \in orphaned

\* The stored entries that a vehicle's deletion left behind.
OrphanedLogs == {l \in fuel_logs : <<"fuel_logs", l.id>> \in orphaned}
OrphanedServices == {v \in service_logs : <<"service_logs", v.id>> \in orphaned}

OrphansStayOut ==
    /\ \A e \in OrphanedLogs \cup OrphanedServices :
          \A c \in cars : c.id # e.car_id
    /\ resp.op = "get_logs" =>
          \A k \in 1..Len(resp.body) :
              <<"fuel_logs", resp.body[k].id>> \notin orphaned
    /\ resp.op = "get_services" =>
          \A k \in 1..Len(resp.body) :
              <<"service_logs", resp.body[k].id>> \notin orphaned

\* C9: every successful POST /api/cars returns an id greater than every id
\* returned before, those of deleted vehicles included; hence an entry
\* orphaned by the deletion of its vehicle references no stored vehicle and
\* is in no listing of GET /api/logs or GET /api/services.
C9_IdsNeverReused ==
    /\ [][ \A data \in CarRequests :
             (add_car(data) /\ resp'.status = 201)
             => /\ \A i \in issued : resp'.body.id > i
                /\ \A c \in cars' \ cars : c.id = resp'.body.id ]_vars
    /\ [] OrphansStayOut

\* C9 witness: a vehicle was deleted under a fuel entry, another vehicle was
\* created afterwards with a greater id, and the listing of all vehicles
\* does not show the orphan.
C9_Witness ==
    /\ resp.op = "get_logs"
    /\ resp.req = <<>>
    /\ resp.body = <<>>
    /\ \E o \in OrphanedLogs, c \in cars : c.id > o.car_id

\* The fuel entries a request for car_id (<<>>: every vehicle) is about.
LogsInScope(car_id) ==
    {l \in fuel_logs : car_id = <<>> \/ l.car_id = car_id[1]}
HasVehicle(l) == \E c \in cars : c.id = l.car_id

\* C10: GET /api/logs lists exactly the stored fuel entries in scope whose
\* vehicle is stored, each once; total_entries of GET /api/stats counts every
\* stored fuel entry in scope.  So the listing is never longer than
\* total_entries of the same scope, and as long exactly when no entry in
\* scope references a missing vehicle.
C10_ListedAgainstCounted ==
    /\ resp.op = "get_logs" =>
          /\ {resp.body[k].id : k \in 1..Len(resp.body)}
                = {l.id : l \in {m \in LogsInScope(resp.req) : HasVehicle(m)}}
          /\ \A j, k \in 1..Len(resp.body) :
                resp.body[j].id = resp.body[k].id => j = k
          /\ Len(resp.body) <= Cardinality(LogsInScope(resp.req))
          /\ Len(resp.body) = Cardinality(LogsInScope(resp.req))
                <=> \A l \in LogsInScope(resp.req) : HasVehicle(l)
    /\ (resp.op = "get_stats" /\ resp.status = 200) =>
          resp.body.total_entries = Cardinality(LogsInScope(resp.req))

\* C10 witness: a listing that shows one entry of a scope holding two, the
\* other one referencing a vehicle that is not stored.
C10_Witness ==
    /\ resp.op = "get_logs"
    /\ Len(resp.body) = 1
    /\ Cardinality(LogsInScope(resp.req)) = 2

\* The entries of a listing that carry an odometer reading.
WithOdometer(body) == {k \in 1..Len(body) : body[k].odometer # <<>>}

\* Entry j comes before entry k in ascending timestamp order.  The listing is
\* newest first; among entries of one timestamp it keeps the order in which
\* the rows were read.
Earlier(body, j, k) ==
    \/ body[j].logged_at < body[k].logged_at
    \/ body[j].logged_at = body[k].logged_at /\ j < k

\* The predecessors of entry k: the entries of the same vehicle with an
\* odometer reading that come immediately before it (none or one).
Predecessors(body, k) ==
    {j \in WithOdometer(body) :
        /\ body[j].car_id = body[k].car_id
        /\ Earlier(body, j, k)
        /\ \A i \in WithOdometer(body) :
              ~ ( /\ body[i].car_id = body[k].car_id
                  /\ Earlier(body, j, i)
                  /\ Earlier(body, i, k) )}

AllNull(e) ==
    /\ e.distance_km = <<>> /\ e.consumption_per100 = <<>>
    /\ e.rand_per_km = <<>> /\ e.rand_per_litre_trip = <<>>
NoneNull(e) ==
    /\ e.distance_km # <<>> /\ e.consumption_per100 # <<>>
    /\ e.rand_per_km # <<>> /\ e.rand_per_litre_trip # <<>>

\* The odometer of entry k exceeds that of its predecessor.
Advanced(body, k) ==
    \E j \in Predecessors(body, k) : body[k].odometer[1] > body[j].odometer[1]

\* What C2 says of every listing whatever it says of the distance: the four
\* fields of an entry with an odometer are all set when the entry has a
\* predecessor with a smaller odometer and all null otherwise; an entry
\* without an odometer gets none of them.
MetricsWhenAdvanced(body) ==
    \A k \in 1..Len(body) :
        IF k \in WithOdometer(body)
        THEN /\ Cardinality(Predecessors(body, k)) <= 1
             /\ IF Advanced(body, k) THEN NoneNull(body[k]) ELSE AllNull(body[k])
        ELSE "distance_km" \notin DOMAIN body[k]

C4_TotalCostFixed ==
    /\ DOMAIN returned = {l.id : l \in fuel_logs}
    /\ \A l \in fuel_logs :
          /\ l.total_cost = RoundHalfEven(100 * l.fuel_amount * l.price_per_unit, 16)
          /\ l.total_cost = returned[l.id]
    /\ \A l1, l2 \in fuel_logs : l1.id = l2.id => l1 = l2
    /\ (resp.op = "add_log" /\ resp.status = 201) =>
          resp.body.total_cost =
              RoundHalfEven(100 * resp.req.fuel_amount[1] * resp.req.price_per_unit[1], 16)

\* C4 witness: an entry of 0.75 units at 0.25 (0.1875, stored as 0.19) is
\* still stored after another entry was deleted and the statistics were read.
C4_Witness ==
    /\ resp.op = "get_stats"
    /\ fuel_seq > Cardinality(fuel_logs)
    /\ \E l \in fuel_logs :
          l.fuel_amount = 3 /\ l.price_per_unit = 1 /\ l.total_cost = 19

\* The odometer readings of the fuel entries in scope.
OdometersInScope(car_id) ==
    {l.odometer[1] : l \in {m \in LogsInScope(car_id) : m.odometer # <<>>}}

\* C6: GET /api/stats never fails; total distance, average consumption and
\* overall cost per km are set exactly when the scope holds a greatest
\* odometer reading above its smallest one, and null otherwise; overall cost
\* per unit is set exactly when total fuel is above 0; a scope without fuel
\* entries gives three zero totals and four nulls.
C6_StatsGuarded ==
    resp.op = "get_stats" =>
        /\ resp.status = 200
        /\ LET odos == OdometersInScope(resp.req)
               far  == \E lo, hi \in odos : hi > lo
           IN  IF far
               THEN /\ resp.body.total_distance_km # <<>>
                    /\ resp.body.avg_consumption_per100 # <<>>
                    /\ resp.body.overall_rand_per_km # <<>>
               ELSE /\ resp.body.total_distance_km = <<>>
                    /\ resp.body.avg_consumption_per100 = <<>>
                    /\ resp.body.overall_rand_per_km = <<>>
        /\ resp.body.total_fuel = SumField(LogsInScope(resp.req), "fuel_amount")
        /\ resp.body.overall_rand_per_litre # <<>> <=> resp.body.total_fuel > 0
        /\ LogsInScope(resp.req) = {} =>
              /\ resp.body.total_entries = 0
              /\ resp.body.total_fuel = 0
              /\ resp.body.total_spent = 0
              /\ resp.body.total_distance_km = <<>>
              /\ resp.body.avg_consumption_per100 = <<>>
              /\ resp.body.overall_rand_per_km = <<>>
              /\ resp.body.overall_rand_per_litre = <<>>

\* C6 witness: statistics over two entries whose amounts cancel (total fuel
\* 0) and whose odometers differ: the distance figures are set, the cost
\* per unit is null.
C6_Witness ==
    /\ resp.op = "get_stats"
    /\ resp.status = 200
    /\ resp.body.total_entries = 2
    /\ resp.body.total_fuel = 0
    /\ resp.body.total_distance_km # <<>>
    /\ resp.body.overall_rand_per_litre = <<>>

\* The categories C5 names.
NamedCategories ==
    {"tyres", "car_wash", "car_service", "panel_beating", "special_service"}

\* C5: every stored service entry has one of the five categories, and a
\* POST /api/services with any other category returns 400 and stores nothing.
C5_CategoryValid ==
    /\ [] (\A v \in service_logs : v.category \in NamedCategories)
    /\ [][ \A data \in CategoryRequests :
             ( /\ add_service(data)
               /\ data.category # <<>>
               /\ data.category[1] \notin NamedCategories )
             => (resp'.status = 400 /\ service_logs' = service_logs) ]_vars

\* C5 witness: an entry of each of two categories is stored and a POST with
\* the category "Tyres" has just been refused.
C5_Witness ==
    /\ resp.op = "add_service"
    /\ resp.req.category = <<"Tyres">>
    /\ resp.status = 400
    /\ \E v, w \in service_logs :
          v.category = "tyres" /\ w.category = "special_service"

\* C8, as stated: when a handler has responded, the connection it opened is
\* closed, so that no connection is open between requests.
C8_ConnectionReleased ==
    resp.op # "none" => conns = 0

====
